---- MODULE Spec2Model ----
(***************************************************************************)
(* UTM link tracker: the HTTP handlers of app/api/v1/utm_links.py over the *)
(* link store and the click table.  Each handler is one action.  The      *)
(* service layer (UTMService) and the analytics client (posthog_service)  *)
(* are collaborators whose code is outside src/; they are modelled from   *)
(* the design document and from the way the handlers use them.            *)
(*                                                                         *)
(* Optional[str] values are strings; NULL stands for Python's None.       *)
(***************************************************************************)
EXTENDS Integers, Sequences, FiniteSets, TLC

NULL == "<None>"

\* Python truthiness of an Optional[str]: None and "" are both falsy.
Falsy(x) == x = NULL \/ x = ""

(* ------------------------------ bounds -------------------------------- *)
NumVideos == 2
MaxLinks == 2
MaxClicks == 2
MaxResolveLinks == 1
MaxMetaClicks == 1
MaxSyncCount == 1       \* largest synced / errors count a sync reports
MaxConcLinks == 4       \* links stored under concurrent bulk-generate calls

(* ------------------------------ domains ------------------------------- *)
VideoId(i) == "v" \o ToString(i)
Videos == {VideoId(i) : i \in 1..NumVideos}
UnknownVideo == "v0"

Destinations == {"https://a.io", "https://b.io"}
DirectTypes == {"direct_posthog", "direct_ga4"}
TrackingTypes == {"server_redirect", "direct_posthog", "direct_ga4", "custom"}

Slug(id) == "go-" \o ToString(id)

NoLink ==
  [id |-> 0, video_id |-> NULL, destination_url |-> NULL, tracking_url |-> NULL,
   direct_url |-> NULL, utm_source |-> NULL, utm_medium |-> NULL,
   utm_campaign |-> NULL, utm_content |-> NULL, utm_term |-> NULL,
   tracking_type |-> NULL, is_active |-> 0, posthog_enabled |-> FALSE,
   ga4_enabled |-> FALSE, pretty_slug |-> NULL]

(* --------------------------- service layer ---------------------------- *)
\* urlencode of the (key, value) pairs whose value is set, in the order given.
RECURSIVE QueryString(_)
QueryString(ps) ==
  IF ps = <<>> THEN ""
  ELSE LET p == Head(ps)
           rest == QueryString(Tail(ps))
       IN IF p[2] = NULL THEN rest
          ELSE p[1] \o "=" \o p[2] \o (IF rest = "" THEN "" ELSE "&" \o rest)

\* UTMService._build_tracking_url(destination_url, utm_params)
BuildTrackingUrl(dest, ps) ==
  LET q == QueryString(ps) IN IF q = "" THEN dest ELSE dest \o "?" \o q

\* The UTM attributes a link stores, as the parameter list of its tracking URL.
StoredParams(l) ==
  << <<"utm_source", l.utm_source>>, <<"utm_medium", l.utm_medium>>,
     <<"utm_campaign", l.utm_campaign>>, <<"utm_content", l.utm_content>>,
     <<"utm_term", l.utm_term>> >>

\* The row UTMService.create_utm_link persists (it commits before returning).
NewLink(id, video, dest, content, term, ttype) ==
  LET base == [NoLink EXCEPT !.id = id, !.video_id = video,
                 !.destination_url = dest, !.utm_source = "youtube",
                 !.utm_medium = "video", !.utm_content = content,
                 !.utm_term = term, !.tracking_type = ttype, !.is_active = 1,
                 !.posthog_enabled = TRUE, !.pretty_slug = Slug(id)]
      url == BuildTrackingUrl(dest, StoredParams(base))
  IN [base EXCEPT !.tracking_url = url,
                  !.direct_url = IF ttype \in DirectTypes THEN url ELSE NULL]

\* A store is a function from the ids of the persisted links to their rows.
Put(store, id, row) == [i \in DOMAIN store \cup {id} |-> IF i = id THEN row ELSE store[i]]
Remove(store, id) == [i \in DOMAIN store \ {id} |-> store[i]]

(* ------------------------------- state -------------------------------- *)
VARIABLES
  active,   \* the video ids whose Video row has is_active = True
  links,    \* the committed UTMLink table: id -> row
  nextId,   \* the next primary key of the UTMLink table
  clicks,   \* the committed LinkClick table, in insertion order
  last,     \* the latest request and its response
  service,  \* the posthog_service singleton: absent, or present with or without credentials
  calls     \* bulk-generate calls in progress on concurrent workers: worker -> call

vars == <<active, links, nextId, clicks, last, service, calls>>

\* app.services.posthog_service.posthog_service: None ("none"), an adapter
\* whose api_key / project_id are not set ("unconfigured"), or a usable one.
ServiceStates == {"none", "unconfigured", "configured"}

\* The worker processes that serve requests side by side, each with a
\* database session of its own, and a worker that is serving no bulk call.
Workers == {"w1", "w2"}
Idle == [pc |-> "idle", p |-> NULL, todo |-> <<>>, found |-> 0, loaded |-> NoLink,
         pending |-> <<>>, out |-> <<>>]

\* What a request leaves behind: the handler (op), its path argument (id, or
\* key for a slug or a video id), the response (status, url, generated), the
\* row the handler's link query returned (found, link), the side effects in
\* the order the handler performed them, the click row it stored and the
\* request data it was given.
NoBody ==
  [status |-> NULL, posthog_configured |-> FALSE, api_key_valid |-> FALSE,
   total_events |-> 0, synced |-> 0, errors |-> 0]

NoResponse ==
  [op |-> "none", id |-> 0, key |-> NULL, status |-> 0, url |-> NULL,
   found |-> FALSE, link |-> NoLink, effects |-> <<>>, generated |-> <<>>,
   row |-> <<>>, input |-> <<>>, body |-> NoBody]

Init ==
  /\ active \in SUBSET Videos
  /\ links = <<>>
  /\ nextId = 1
  /\ clicks = <<>>
  /\ last = NoResponse
  /\ service = "configured"
  /\ calls = [w \in Workers |-> Idle]

(* ------------------------ POST /utm-links ----------------------------- *)
\* create_utm_link raises ValueError for an unknown video: 404.
CreateStatus(video) == IF video \in Videos THEN 201 ELSE 404

CreateUtmLink(video, dest, content, term, ttype) ==
  /\ nextId <= MaxLinks
  /\ IF CreateStatus(video) = 201
       THEN /\ links' = Put(links, nextId, NewLink(nextId, video, dest, content, term, ttype))
            /\ nextId' = nextId + 1
            /\ last' = [NoResponse EXCEPT !.op = "create", !.id = nextId, !.key = video,
                          !.status = 201, !.found = TRUE, !.link = links'[nextId]]
       ELSE /\ UNCHANGED <<links, nextId>>
            /\ last' = [NoResponse EXCEPT !.op = "create", !.key = video, !.status = 404]
  /\ UNCHANGED <<service, calls, active, clicks>>

(* ---------------- the flags of a stored link (data model) -------------- *)
SetFlags(id, act, ph) ==
  /\ id \in DOMAIN links
  /\ links' = [links EXCEPT ![id].is_active = act, ![id].posthog_enabled = ph]
  /\ links' # links
  /\ last' = [NoResponse EXCEPT !.op = "flags", !.id = id]
  /\ UNCHANGED <<service, calls, active, nextId, clicks>>

(* --------------------- click recording and forwarding ------------------ *)
\* The LinkClick row UTMService.record_click commits.
ClickRow(linkId, ua, ip, ref) ==
  [link_id |-> linkId, user_agent |-> ua, ip_address |-> ip, referrer |-> ref]

\* The request metadata a redirect handler passes to record_click.
HeaderRow(linkId, req) == ClickRow(linkId, req.ua, req.host, req.referer)

\* Variant: the enabled check is dropped, the event is always sent.
PosthogForwardAlways(enabled, fwd) ==
  [effects |-> <<"forward_" \o fwd>>, escaped |-> FALSE]

\* Variant: no except clause around the call, a failure leaves the block.
PosthogForwardUncaught(enabled, fwd) ==
  [effects |-> IF enabled THEN <<"forward_" \o fwd>> ELSE <<>>,
   escaped |-> enabled /\ fwd = "raise"]

\* try: if posthog_enabled: await send_utm_click_event(...) except Exception: log.
\* fwd is what the call does when made ("ok" or "raise"); escaped tells whether
\* an exception leaves the try block.
PosthogForward(enabled, fwd) ==
  [effects |-> IF enabled THEN <<"forward_" \o fwd>> ELSE <<>>, escaped |-> FALSE]

\* The handler records the click first and forwards afterwards.
RecordThenForward(f) == <<"click">> \o f.effects

Forwarded(effects) == \E i \in 1..Len(effects) : effects[i] \in {"forward_ok", "forward_raise"}
Recorded(effects) == \E i \in 1..Len(effects) : effects[i] = "click"

(* ------------------------- link look-ups ------------------------------ *)
\* Variant: the is_active filter is dropped from the query.
AnyById(store, id) == IF id \in DOMAIN store THEN store[id] ELSE NoLink

\* db.query(UTMLink).filter(UTMLink.id == link_id, UTMLink.is_active == 1).first()
ActiveById(store, id) ==
  IF id \in DOMAIN store /\ store[id].is_active = 1 THEN store[id] ELSE NoLink

\* db.query(UTMLink).filter(pretty_slug == slug, is_active == 1).first()
ActiveBySlug(store, slug) ==
  LET hits == {i \in DOMAIN store : store[i].pretty_slug = slug /\ store[i].is_active = 1}
  IN IF hits = {} THEN NoLink ELSE store[CHOOSE i \in hits : TRUE]

(* --------------------------- redirect targets -------------------------- *)
\* GET /r/{link_id}
RedirectUrlR(l) ==
  IF l.tracking_type = "direct_ga4" THEN l.direct_url ELSE l.destination_url

\* Variant: only server_redirect goes to the destination, every other value
\* is treated as a direct variant.
RedirectUrlGoOnlyServer(l) ==
  IF l.tracking_type # "server_redirect"
    THEN IF ~Falsy(l.direct_url) THEN l.direct_url ELSE l.tracking_url
    ELSE l.destination_url

\* GET /go/{slug}: direct_url or tracking_url for the direct variants
RedirectUrlGo(l) ==
  IF l.tracking_type \in {"direct_posthog", "direct_ga4"}
    THEN IF ~Falsy(l.direct_url) THEN l.direct_url ELSE l.tracking_url
    ELSE l.destination_url

\* Variant: /track never hands over, it records every active link's click itself.
TrackNeverDelegates(l) == FALSE

\* GET /track/{link_id} hands every link that is not direct_ga4 over to /r.
TrackDelegates(l) == l.tracking_type # "direct_ga4"
TrackDelegateUrl(id) == "/api/v1/r/" \o ToString(id)

\* Shared tail of the three redirect handlers once the link was found: record
\* the click, forward, answer 302 (500 if an exception reaches the outer except).
RecordAndRedirect(op, id, key, l, req, fwd, url) ==
  LET f == PosthogForward(l.posthog_enabled, fwd)
      row == HeaderRow(l.id, req)
  IN /\ Len(clicks) < MaxClicks
     /\ clicks' = Append(clicks, row)
     /\ last' = [NoResponse EXCEPT !.op = op, !.id = id, !.key = key,
                   !.status = IF f.escaped THEN 500 ELSE 302,
                   !.url = IF f.escaped THEN NULL ELSE url,
                   !.found = TRUE, !.link = l, !.effects = RecordThenForward(f),
                   !.row = <<row>>, !.input = <<req>>]

NotFound(op, id, key) ==
  /\ last' = [NoResponse EXCEPT !.op = op, !.id = id, !.key = key, !.status = 404]
  /\ UNCHANGED clicks

RedirectUtmLink(id, req, fwd) ==
  LET l == ActiveById(links, id)
  IN /\ IF l = NoLink THEN NotFound("r", id, NULL)
        ELSE RecordAndRedirect("r", id, NULL, l, req, fwd, RedirectUrlR(l))
     /\ UNCHANGED <<service, calls, active, links, nextId>>

TrackDirectGa4Click(id, req, fwd) ==
  LET l == ActiveById(links, id)
  IN /\ IF l = NoLink THEN NotFound("track", id, NULL)
        ELSE IF TrackDelegates(l)
          THEN /\ last' = [NoResponse EXCEPT !.op = "track", !.id = id, !.status = 302,
                             !.url = TrackDelegateUrl(id), !.found = TRUE, !.link = l,
                             !.input = <<req>>]
               /\ UNCHANGED clicks
          ELSE RecordAndRedirect("track", id, NULL, l, req, fwd, l.direct_url)
     /\ UNCHANGED <<service, calls, active, links, nextId>>

RedirectPrettyUtmLink(slug, req, fwd) ==
  LET l == ActiveBySlug(links, slug)
  IN /\ IF l = NoLink THEN NotFound("go", 0, slug)
        ELSE RecordAndRedirect("go", l.id, slug, l, req, fwd, RedirectUrlGo(l))
     /\ UNCHANGED <<service, calls, active, links, nextId>>

(* -------------------- POST /utm-links/{link_id}/click ------------------ *)
\* click_data is optional: explicit values are taken from it when it is given.
Explicit(data, field) == IF data.present THEN data[field] ELSE NULL

\* Variant: the request-derived value wins whenever there is one.
FallbackDerivedFirst(explicit, derived) == IF Falsy(derived) THEN explicit ELSE derived

\* if not value: value = <request-derived value>
Fallback(explicit, derived) == IF Falsy(explicit) THEN derived ELSE explicit

ClickMetadata(linkId, data, req) ==
  ClickRow(linkId,
           Fallback(Explicit(data, "user_agent"), req.ua),
           Fallback(Explicit(data, "ip_address"), req.host),
           Fallback(Explicit(data, "referrer"), req.referer))

\* record_click raises for a link id that does not exist; the handler's only
\* except clause turns every exception into 500.
RecordClickStatus(exists) == IF exists THEN 201 ELSE 500

RecordLinkClick(id, data, req, fwd) ==
  LET exists == id \in DOMAIN links
      l == IF exists THEN links[id] ELSE NoLink
      row == ClickMetadata(id, data, req)
      f == PosthogForward(exists /\ l.posthog_enabled, fwd)
  IN /\ IF RecordClickStatus(exists) = 201
          THEN /\ Len(clicks) < MaxClicks
               /\ clicks' = Append(clicks, row)
               /\ last' = [NoResponse EXCEPT !.op = "click", !.id = id,
                             !.status = IF f.escaped THEN 500 ELSE 201,
                             !.found = TRUE, !.link = l,
                             !.effects = RecordThenForward(f),
                             !.row = <<row>>, !.input = <<data, req>>]
          ELSE /\ UNCHANGED clicks
               /\ last' = [NoResponse EXCEPT !.op = "click", !.id = id,
                             !.status = RecordClickStatus(exists),
                             !.input = <<data, req>>]
     /\ UNCHANGED <<service, calls, active, links, nextId>>

(* ------------------ GET /utm-links/{link_id}/analytics ----------------- *)
\* get_link_analytics raises ValueError for a missing link: 404.
AnalyticsStatus(exists) == IF exists THEN 200 ELSE 404

GetLinkAnalytics(id) ==
  /\ last' = [NoResponse EXCEPT !.op = "analytics", !.id = id,
                !.status = AnalyticsStatus(id \in DOMAIN links),
                !.found = id \in DOMAIN links,
                !.link = IF id \in DOMAIN links THEN links[id] ELSE NoLink]
  /\ UNCHANGED <<service, calls, active, links, nextId, clicks>>

(* --------------------- DELETE /utm-links/{link_id} --------------------- *)
\* UTMService.delete_utm_link: removes the row and tells whether it existed.
DeleteService(store, id) ==
  [success |-> id \in DOMAIN store,
   store |-> IF id \in DOMAIN store THEN Remove(store, id) ELSE store]

\* Variant: the result of delete_utm_link is not looked at.
DeleteStatusAlwaysOk(success) == 200

\* if not success: raise HTTPException(404)
DeleteStatus(success) == IF success THEN 200 ELSE 404

DeleteUtmLink(id) ==
  LET r == DeleteService(links, id)
  IN /\ links' = r.store
     /\ last' = [NoResponse EXCEPT !.op = "delete", !.id = id,
                   !.status = DeleteStatus(r.success), !.found = r.success,
                   !.link = IF r.success THEN links[id] ELSE NoLink]
     /\ UNCHANGED <<service, calls, active, nextId, clicks>>

(* ----------------------- POST /utm/bulk-generate ----------------------- *)
\* videos = db.query(Video).filter(Video.is_active == True).all(): the active
\* videos in whatever order the store returns them.
Orders(S) ==
  {o \in [1..Cardinality(S) -> S] : \A i, j \in 1..Cardinality(S) : o[i] = o[j] => i = j}

\* The rows the existence query (video id + destination URL) matches.
Matches(store, v, dest) ==
  {i \in DOMAIN store : store[i].video_id = v /\ store[i].destination_url = dest}

\* .first() without ORDER BY: any matching row, 0 when there is none.
Picks(store, vs, dest) ==
  {f \in [vs -> 0..MaxLinks] :
     \A v \in vs : IF Matches(store, v, dest) = {} THEN f[v] = 0
                   ELSE f[v] \in Matches(store, v, dest)}

\* campaign = utm_campaign or f"video_{video.video_id}"
BulkCampaign(campaign, v) == IF Falsy(campaign) THEN "video_" \o v ELSE campaign

\* Variant: utm_content is left out of the regenerated tracking URL.
BulkParamsNoContent(p, v) ==
  << <<"utm_source", p.source>>, <<"utm_medium", p.medium>>,
     <<"utm_campaign", BulkCampaign(p.campaign, v)>> >>

\* utm_params: source, medium, campaign, content (the video id)
BulkParams(p, v) ==
  << <<"utm_source", p.source>>, <<"utm_medium", p.medium>>,
     <<"utm_campaign", BulkCampaign(p.campaign, v)>>, <<"utm_content", v>> >>

\* direct_url = tracking_url if tracking_type == "direct_posthog" else None
BulkDirectUrl(ttype, url) == IF ttype = "direct_posthog" THEN url ELSE NULL

\* The attribute assignments of the update path.
UpdateExisting(l, p, v) ==
  [l EXCEPT !.utm_source = p.source, !.utm_medium = p.medium,
            !.utm_campaign = BulkCampaign(p.campaign, v), !.utm_content = v,
            !.tracking_type = p.ttype]

\* The attribute assignments of the create path, after create_utm_link.
UpdateCreated(l, p, v) ==
  [l EXCEPT !.utm_source = p.source, !.utm_medium = p.medium,
            !.utm_campaign = BulkCampaign(p.campaign, v)]

\* tracking_url and direct_url regenerated from the call's parameters.
Regenerate(l, p, v) ==
  LET url == BuildTrackingUrl(p.dest, BulkParams(p, v))
  IN [l EXCEPT !.tracking_url = url, !.direct_url = BulkDirectUrl(p.ttype, url)]

\* One element of the response's "links" array.
BulkEntry(l, status) ==
  [id |-> l.id, video_id |-> l.video_id, tracking_url |-> l.tracking_url,
   utm_content |-> l.utm_content, tracking_type |-> l.tracking_type,
   status |-> status]

\* create_utm_link commits the session: the new row, and with it every
\* assignment still pending on rows touched by earlier iterations.
CommitOnCreate(sess, id, row) == Put(sess, id, row)

NoFail == [video |-> NULL, stage |-> "none"]
Fails(vs) == {NoFail} \cup [video : vs, stage : {"query", "build"}]

\* One iteration of the loop.  st.sess is the session's view of the table,
\* st.db the committed table, st.out the generated_links list.  An exception
\* raised while processing `fail.video` (at the existence query, or at
\* _build_tracking_url) sets st.failed.
BulkVideo(st, v, p, pick, fail) ==
  IF fail = [video |-> v, stage |-> "query"] THEN [st EXCEPT !.failed = TRUE]
  ELSE IF pick[v] # 0
    THEN LET l1 == UpdateExisting(st.sess[pick[v]], p, v)
             l2 == Regenerate(l1, p, v)
         IN IF fail = [video |-> v, stage |-> "build"]
              THEN [st EXCEPT !.sess = Put(@, l1.id, l1), !.failed = TRUE]
              ELSE [st EXCEPT !.sess = Put(@, l2.id, l2),
                              !.out = Append(@, BulkEntry(l2, "updated"))]
    ELSE LET l0 == NewLink(st.next, v, p.dest, v, NULL, p.ttype)
             s0 == CommitOnCreate(st.sess, l0.id, l0)
             l1 == UpdateCreated(l0, p, v)
             l2 == Regenerate(l1, p, v)
         IN IF fail = [video |-> v, stage |-> "build"]
              THEN [st EXCEPT !.sess = Put(s0, l1.id, l1), !.db = s0,
                              !.next = @ + 1, !.failed = TRUE]
              ELSE [st EXCEPT !.sess = Put(s0, l2.id, l2), !.db = s0,
                              !.next = @ + 1,
                              !.out = Append(@, BulkEntry(l2, "created"))]

RECURSIVE BulkLoop(_, _, _, _, _)
BulkLoop(order, st, p, pick, fail) ==
  IF order = <<>> \/ st.failed THEN st
  ELSE BulkLoop(Tail(order), BulkVideo(st, Head(order), p, pick, fail), p, pick, fail)

\* db.commit() after the loop; db.rollback() in the except clause.
BulkOutcome(st) == IF st.failed THEN st.db ELSE st.sess

BulkGenerateUtmLinks(p, order, pick, fail) ==
  LET st == BulkLoop(order, [sess |-> links, db |-> links, next |-> nextId,
                             out |-> <<>>, failed |-> FALSE], p, pick, fail)
      need == Cardinality({v \in active : Matches(links, v, p.dest) = {}})
  IN /\ nextId - 1 + need <= MaxLinks
     /\ IF active = {}
          THEN /\ last' = [NoResponse EXCEPT !.op = "bulk", !.key = p.dest, !.status = 404]
               /\ UNCHANGED <<links, nextId>>
          ELSE /\ links' = BulkOutcome(st)
               /\ nextId' = st.next
               /\ last' = [NoResponse EXCEPT !.op = "bulk", !.key = p.dest,
                             !.status = IF st.failed THEN 500 ELSE 200,
                             !.generated = IF st.failed THEN <<>> ELSE st.out]
     /\ UNCHANGED <<service, calls, active, clicks>>

BulkInput(dest, ttype, campaign, source, medium) ==
  [dest |-> dest, ttype |-> ttype, campaign |-> campaign, source |-> source,
   medium |-> medium]

(* ------------ POST /utm/bulk-generate on concurrent workers ------------ *)
\* The same handler, taken one database round trip at a time: the Video
\* query, each iteration's existence query, each iteration's writes, the
\* final commit.  calls[w].pending is the session's unflushed work: for each
\* row it touched, the new values and the columns they differ in.

\* The columns an UPDATE writes: those whose value was changed.
Changed(old, new) == {f \in DOMAIN old : old[f] # new[f]}

\* A row after the UPDATE of the pending columns.
Merge(row, pend) == [f \in DOMAIN row |-> IF f \in pend.cols THEN pend.row[f] ELSE row[f]]

\* The table after a session's pending updates are committed.
Flush(store, pending) ==
  [i \in DOMAIN store |-> IF i \in DOMAIN pending THEN Merge(store[i], pending[i])
                          ELSE store[i]]

Pend(old, new) == [row |-> new, cols |-> Changed(old, new)]

\* Iterations the calls in progress still have to run.
Remaining == LET RECURSIVE Sum(_)
                 Sum(S) == IF S = {} THEN 0
                           ELSE LET w == CHOOSE x \in S : TRUE
                                IN Len(calls[w].todo) + Sum(S \ {w})
             IN Sum(Workers)

\* videos = db.query(Video).filter(Video.is_active == True).all(); 404 if none.
BulkBegin(w, p, order) ==
  /\ calls[w].pc = "idle"
  /\ nextId - 1 + Remaining + Len(order) <= MaxConcLinks
  /\ IF active = {}
       THEN /\ last' = [NoResponse EXCEPT !.op = "bulk", !.key = p.dest, !.status = 404]
            /\ UNCHANGED calls
       ELSE /\ calls' = [calls EXCEPT ![w] = [Idle EXCEPT !.pc = "query", !.p = p,
                                                          !.todo = order]]
            /\ last' = [NoResponse EXCEPT !.op = "bulk_begin", !.key = w]
  /\ UNCHANGED <<service, active, links, nextId, clicks>>

\* existing_link = db.query(UTMLink).filter(video_id, destination_url).first()
BulkQuery(w) ==
  LET c == calls[w]
      m == Matches(links, Head(c.todo), c.p.dest)
  IN /\ c.pc = "query"
     /\ \E f \in (IF m = {} THEN {0} ELSE m) :
          calls' = [calls EXCEPT ![w].pc = "write", ![w].found = f,
                                 ![w].loaded = IF f = 0 THEN NoLink ELSE links[f]]
     /\ last' = [NoResponse EXCEPT !.op = "bulk_query", !.key = w]
     /\ UNCHANGED <<service, active, links, nextId, clicks>>

\* The update path, or the create path with create_utm_link's commit.
BulkWrite(w) ==
  LET c == calls[w]
      v == Head(c.todo)
      pc == IF Tail(c.todo) = <<>> THEN "commit" ELSE "query"
  IN /\ c.pc = "write"
     /\ IF c.found # 0
          THEN LET l2 == Regenerate(UpdateExisting(c.loaded, c.p, v), c.p, v)
               IN /\ calls' = [calls EXCEPT
                       ![w].pc = pc, ![w].todo = Tail(c.todo),
                       ![w].pending = Put(c.pending, l2.id, Pend(c.loaded, l2)),
                       ![w].out = Append(c.out, BulkEntry(l2, "updated"))]
                  /\ UNCHANGED <<links, nextId>>
          ELSE LET l0 == NewLink(nextId, v, c.p.dest, v, NULL, c.p.ttype)
                   l2 == Regenerate(UpdateCreated(l0, c.p, v), c.p, v)
               IN /\ links' = CommitOnCreate(Flush(links, c.pending), l0.id, l0)
                  /\ nextId' = nextId + 1
                  /\ calls' = [calls EXCEPT
                       ![w].pc = pc, ![w].todo = Tail(c.todo),
                       ![w].pending = Put(<<>>, l0.id, Pend(l0, l2)),
                       ![w].out = Append(c.out, BulkEntry(l2, "created"))]
     /\ last' = [NoResponse EXCEPT !.op = "bulk_write", !.key = w]
     /\ UNCHANGED <<service, active, clicks>>

\* db.commit() after the loop, and the response.
BulkCommit(w) ==
  LET c == calls[w]
  IN /\ c.pc = "commit"
     /\ links' = Flush(links, c.pending)
     /\ calls' = [calls EXCEPT ![w] = Idle]
     /\ last' = [NoResponse EXCEPT !.op = "bulk", !.key = c.p.dest, !.status = 200,
                   !.generated = c.out]
     /\ UNCHANGED <<service, active, nextId, clicks>>

(* ------------- POST /utm-links/{link_id}/ga4/enable, /disable ----------- *)
\* utm_link = query by id; 404 when there is none; else set the flag, commit.
SetGa4Tracking(op, id, value) ==
  /\ IF id \in DOMAIN links
       THEN /\ links' = [links EXCEPT ![id].ga4_enabled = value]
            /\ last' = [NoResponse EXCEPT !.op = op, !.id = id, !.status = 200,
                          !.found = TRUE, !.link = links'[id]]
       ELSE /\ UNCHANGED links
            /\ last' = [NoResponse EXCEPT !.op = op, !.id = id, !.status = 404]
  /\ UNCHANGED <<service, calls, active, nextId, clicks>>

EnableGa4Tracking(id) == SetGa4Tracking("ga4_enable", id, TRUE)
DisableGa4Tracking(id) == SetGa4Tracking("ga4_disable", id, FALSE)

(* ----------------------- PostHog integration --------------------------- *)
\* The handlers import the singleton from a module the application has
\* already loaded (utm_links.py imports it at module level), so the import
\* inside each handler succeeds.
\*
\* What posthog_service.get_website_analytics gives back: metrics, an empty
\* dict, a dict holding an "error" marker, None, or an exception. Without
\* credentials there are no metrics to give.
AnalyticsOutcomes(svc) ==
  IF svc = "configured" THEN {"data", "empty", "error", "none", "raise"}
  ELSE {"empty", "error", "none", "raise"}

\* `if not posthog_service`
NoService(svc) == svc = "none"

\* bool(posthog_service.api_key and posthog_service.project_id)
Configured(svc) == svc = "configured"

\* test_data is not None and "error" not in test_data
ApiKeyValid(out) == out \in {"data", "empty"}

\* test_data and "error" not in test_data
Responding(out) == out = "data"

\* db.query(UTMLink).filter(UTMLink.posthog_enabled == True).count()
TotalEvents(store) == Cardinality({i \in DOMAIN store : store[i].posthog_enabled})

PosthogResponse(op, status, body, effects, input) ==
  /\ last' = [NoResponse EXCEPT !.op = op, !.status = status, !.body = body,
                !.effects = effects, !.input = input]
  /\ UNCHANGED <<service, calls, active, links, nextId, clicks>>

\* GET /status: the probe is made only when both credentials are set.
GetPosthogStatus(out) ==
  IF NoService(service) THEN PosthogResponse("status", 200, NoBody, <<>>, <<>>)
  ELSE LET valid == Configured(service) /\ out # "raise" /\ ApiKeyValid(out)
       IN PosthogResponse("status", 200,
            [NoBody EXCEPT !.posthog_configured = Configured(service),
                           !.api_key_valid = valid,
                           !.total_events = TotalEvents(links)],
            IF Configured(service) THEN <<"analytics_call">> ELSE <<>>,
            IF Configured(service) THEN <<out>> ELSE <<>>)

\* What sync_utm_data returns: a dict that may lack either count.
SyncResults == UNION {[K -> 0..MaxSyncCount] : K \in SUBSET {"synced", "errors"}}

\* result.get(key, 0)
Get(result, key) == IF key \in DOMAIN result THEN result[key] ELSE 0

\* POST /sync. out is whether sync_utm_data returns res or raises. The
\* HTTPException(400) for a missing service is raised inside the try block:
\* `except Exception` catches it and raises HTTPException(500).
TriggerPosthogSync(out, res) ==
  IF NoService(service) THEN PosthogResponse("sync", 500, NoBody, <<"raise_400">>, <<>>)
  ELSE IF out = "raise"
    THEN PosthogResponse("sync", 500, NoBody, <<"sync_call">>, <<out>>)
  ELSE PosthogResponse("sync", 200,
         [NoBody EXCEPT !.synced = Get(res, "synced"), !.errors = Get(res, "errors")],
         <<"sync_call">>, <<out, res>>)

\* GET /analytics
GetPosthogAnalytics(out) ==
  IF NoService(service)
    THEN PosthogResponse("ph_analytics", 200, [NoBody EXCEPT !.status = "error"],
                         <<>>, <<>>)
  ELSE IF out = "raise"
    THEN PosthogResponse("ph_analytics", 500, NoBody, <<"analytics_call">>, <<out>>)
  ELSE PosthogResponse("ph_analytics", 200, [NoBody EXCEPT !.status = "success"],
                       <<"analytics_call">>, <<out>>)

\* The status GET /health reports.
HealthStatus(svc, out) ==
  IF NoService(svc) THEN "not_configured"
  ELSE IF out # "raise" /\ Responding(out) THEN "healthy"
  ELSE "unhealthy"

\* GET /health: every path returns, none raises.
GetPosthogHealth(out) ==
  PosthogResponse("health", 200,
    [NoBody EXCEPT !.status = HealthStatus(service, out)],
    IF NoService(service) THEN <<>> ELSE <<"analytics_call">>,
    IF NoService(service) THEN <<>> ELSE <<out>>)

(* ------------------------------ inputs -------------------------------- *)
Outcomes == {"ok", "raise"}
PlainRequest == [ua |-> "h-ua", host |-> "h-ip", referer |-> "h-ref"]
NoData == [present |-> FALSE, user_agent |-> NULL, ip_address |-> NULL, referrer |-> NULL]

\* The redirect and click handlers over one video's links of every variant.
InitResolve == Init /\ active = {VideoId(1)}

NextResolve ==
  \/ \E ty \in TrackingTypes :
       nextId <= MaxResolveLinks /\ CreateUtmLink(VideoId(1), "https://a.io", NULL, NULL, ty)
  \/ \E ty \in DirectTypes :
       \E order \in Orders(active), pick \in Picks(links, active, "https://a.io") :
         /\ nextId <= MaxResolveLinks \/ Matches(links, VideoId(1), "https://a.io") # {}
         /\ BulkGenerateUtmLinks(BulkInput("https://a.io", ty, NULL, "youtube", "video"),
                                 order, pick, NoFail)
  \/ \E id \in 1..MaxResolveLinks, a \in {0, 1}, p \in BOOLEAN : SetFlags(id, a, p)
  \/ \E id \in 1..MaxResolveLinks, fwd \in Outcomes : RedirectUtmLink(id, PlainRequest, fwd)
  \/ \E id \in 1..MaxResolveLinks, fwd \in Outcomes : TrackDirectGa4Click(id, PlainRequest, fwd)
  \/ \E id \in 1..MaxResolveLinks, fwd \in Outcomes :
       RedirectPrettyUtmLink(Slug(id), PlainRequest, fwd)
  \/ \E id \in 1..MaxResolveLinks, fwd \in Outcomes :
       RecordLinkClick(id, NoData, PlainRequest, fwd)
  \/ \E id \in 1..MaxResolveLinks : DeleteUtmLink(id)
  \/ \E id \in 1..MaxResolveLinks : GetLinkAnalytics(id)

SpecResolve == InitResolve /\ [][NextResolve]_vars

\* POST /utm-links/{id}/click over every combination of explicit and
\* request-derived metadata.
ClickData ==
  {NoData} \cup [present : {TRUE}, user_agent : {NULL, "", "e-ua"},
                 ip_address : {NULL, "", "e-ip"}, referrer : {NULL, "", "e-ref"}]
Requests == [ua : {NULL, "h-ua"}, host : {NULL, "h-ip"}, referer : {NULL, "h-ref"}]

NextClick ==
  \/ nextId <= MaxResolveLinks
       /\ CreateUtmLink(VideoId(1), "https://a.io", NULL, NULL, "server_redirect")
  \/ \E id \in 1..MaxResolveLinks, data \in ClickData, req \in Requests, fwd \in Outcomes :
       Len(clicks) < MaxMetaClicks /\ RecordLinkClick(id, data, req, fwd)

SpecClick == InitResolve /\ [][NextClick]_vars

\* Every handler that takes a link id or slug, over a store that may or may
\* not hold the link.
NextById ==
  \/ \E ty \in {"server_redirect", "direct_ga4"} :
       nextId <= MaxResolveLinks /\ CreateUtmLink(VideoId(1), "https://a.io", NULL, NULL, ty)
  \/ \E id \in 1..MaxResolveLinks : DeleteUtmLink(id)
  \/ \E id \in 1..MaxResolveLinks : GetLinkAnalytics(id)
  \/ \E id \in 1..MaxResolveLinks : EnableGa4Tracking(id)
  \/ \E id \in 1..MaxResolveLinks : DisableGa4Tracking(id)
  \/ \E id \in 1..MaxResolveLinks, fwd \in Outcomes :
       RecordLinkClick(id, NoData, PlainRequest, fwd)
  \/ \E id \in 1..MaxResolveLinks, fwd \in Outcomes : RedirectUtmLink(id, PlainRequest, fwd)
  \/ \E id \in 1..MaxResolveLinks, fwd \in Outcomes : TrackDirectGa4Click(id, PlainRequest, fwd)
  \/ \E id \in 1..MaxResolveLinks, fwd \in Outcomes :
       RedirectPrettyUtmLink(Slug(id), PlainRequest, fwd)

SpecById == InitResolve /\ [][NextById]_vars

\* The PostHog endpoints over every state of the singleton and a small store.
InitPosthog ==
  /\ active = {VideoId(1)}
  /\ links = <<>>
  /\ nextId = 1
  /\ clicks = <<>>
  /\ last = NoResponse
  /\ service \in ServiceStates
  /\ calls = [w \in Workers |-> Idle]

NextPosthog ==
  \/ nextId <= MaxResolveLinks
       /\ CreateUtmLink(VideoId(1), "https://a.io", NULL, NULL, "server_redirect")
  \/ \E id \in 1..MaxResolveLinks, a \in {0, 1}, p \in BOOLEAN : SetFlags(id, a, p)
  \/ \E out \in AnalyticsOutcomes(service) : GetPosthogStatus(out)
  \/ \E out \in Outcomes, res \in SyncResults : TriggerPosthogSync(out, res)
  \/ \E out \in AnalyticsOutcomes(service) : GetPosthogAnalytics(out)
  \/ \E out \in AnalyticsOutcomes(service) : GetPosthogHealth(out)

SpecPosthog == InitPosthog /\ [][NextPosthog]_vars

\* Bulk-generate calls for one destination on workers that run side by side.
InitConcurrent ==
  /\ active \in {{VideoId(1)}, {VideoId(1), VideoId(2)}}
  /\ links = <<>>
  /\ nextId = 1
  /\ clicks = <<>>
  /\ last = NoResponse
  /\ service = "configured"
  /\ calls = [w \in Workers |-> Idle]

NextConcurrent ==
  \/ \E w \in Workers, c \in {NULL, "c"}, order \in Orders(active) :
       BulkBegin(w, BulkInput("https://a.io", "direct_posthog", c, "youtube", "video"), order)
  \/ \E w \in Workers : BulkQuery(w)
  \/ \E w \in Workers : BulkWrite(w)
  \/ \E w \in Workers : BulkCommit(w)

SpecConcurrent == InitConcurrent /\ [][NextConcurrent]_vars

\* The link store under create, bulk-generate and delete.
Next ==
  \/ \E v \in Videos \cup {UnknownVideo}, t \in {NULL, "t"} :
       CreateUtmLink(v, "https://a.io", NULL, t, "server_redirect")
  \/ \E d \in Destinations, c \in {NULL, "c"} :
       \E order \in Orders(active), pick \in Picks(links, active, d), fail \in Fails(active) :
         BulkGenerateUtmLinks(BulkInput(d, "direct_posthog", c, "youtube", "video"),
                              order, pick, fail)
  \/ \E id \in 1..MaxLinks : DeleteUtmLink(id)

Spec == Init /\ [][Next]_vars

(* ======================= properties of the handlers ==================== *)
ResolveOps == {"r", "track", "go"}

\* The rows of `store` a request refers to: by slug for /go, by id otherwise.
Referenced(store, resp) ==
  IF resp.op = "go" THEN {i \in DOMAIN store : store[i].pretty_slug = resp.key}
  ELSE {resp.id} \cap DOMAIN store

RefersToActive(store, resp) == \E i \in Referenced(store, resp) : store[i].is_active = 1

\* C1: a resolve request (/r, /track, /go) whose link is missing or inactive
\* is answered 404 with no redirect target, stores no click row and makes no
\* forwarding call.
C1_ResolveFailsClosed ==
  [][(last'.op \in ResolveOps /\ ~RefersToActive(links, last'))
       => /\ last'.status = 404
          /\ last'.url = NULL
          /\ clicks' = clicks
          /\ last'.effects = <<>>]_vars

C1_Witness ==
  /\ last.op \in ResolveOps
  /\ last.status = 404
  /\ \E i \in Referenced(links, last) : links[i].is_active = 0

\* The target the design document prescribes for the direct variants.
StrictFallback(l) ==
  IF l.direct_url # NULL THEN l.direct_url
  ELSE IF l.tracking_url # NULL THEN l.tracking_url
  ELSE l.destination_url

\* C2: on every resolve endpoint an active direct_posthog / direct_ga4 link is
\* redirected to direct_url if present, else tracking_url, else destination_url.
C2_StrictFallbackOrder ==
  (last.op \in ResolveOps /\ last.found /\ last.link.tracking_type \in DirectTypes)
    => (last.status = 302 /\ last.url = StrictFallback(last.link))

\* Whether the request is one the claim counts as click-recording.
ClickRecordingAsClaimed(store, resp) ==
  \/ resp.op = "click" /\ resp.id \in DOMAIN store
  \/ resp.op \in ResolveOps /\ RefersToActive(store, resp)

\* /track records only for direct_ga4 links; the other endpoints as claimed.
ClickRecording(store, resp) ==
  \/ resp.op = "click" /\ resp.id \in DOMAIN store
  \/ resp.op \in {"r", "go"} /\ RefersToActive(store, resp)
  \/ /\ resp.op = "track"
     /\ RefersToActive(store, resp)
     /\ store[resp.id].tracking_type = "direct_ga4"

OneRowAppended(resp) ==
  /\ Len(clicks') = Len(clicks) + 1
  /\ SubSeq(clicks', 1, Len(clicks)) = clicks
  /\ clicks'[Len(clicks')].link_id \in Referenced(links, resp)

\* C3 as stated: every click-recording request, /track on any active link
\* included, stores exactly one row and leaves the earlier rows as they were.
C3_OneRowEveryEndpoint ==
  [][ClickRecordingAsClaimed(links, last') => OneRowAppended(last')]_vars

\* C3: POST click on an existing link, /r and /go on an active link and /track
\* on an active direct_ga4 link store exactly one row, whatever the forwarding
\* call does; /track on an active link of another variant stores none and
\* answers 302 to /api/v1/r/{id}; no other step touches the click table.
C3_OneRowPerRecordedClick ==
  [][/\ ClickRecording(links, last') => OneRowAppended(last')
     /\ ~ClickRecording(links, last') => clicks' = clicks
     /\ (last'.op = "track" /\ RefersToActive(links, last')
           /\ ~ClickRecording(links, last'))
          => (last'.status = 302 /\ last'.url = "/api/v1/r/" \o ToString(last'.id))]_vars

C3_Witness ==
  /\ last.op = "track"
  /\ last.link.tracking_type = "direct_ga4"
  /\ last.effects = <<"click", "forward_raise">>
  /\ Len(clicks) = 2
  /\ clicks[2].link_id = last.id

\* The explicit and the request-derived value of each metadata field of the
\* latest POST click.
MetaFields ==
  { <<"user_agent", "ua">>, <<"ip_address", "host">>, <<"referrer", "referer">> }
ExplicitOf(resp, f) == IF resp.input[1].present THEN resp.input[1][f[1]] ELSE NULL
DerivedOf(resp, f) == resp.input[2][f[2]]
StoredOf(resp, f) == resp.row[1][f[1]]

\* C4 as stated: a supplied explicit value is what gets stored, the derived
\* value is used only when none was supplied, null only when both are absent.
C4_ExplicitAlwaysWins ==
  (last.op = "click" /\ last.status = 201)
    => \A f \in MetaFields :
         /\ StoredOf(last, f) = IF ExplicitOf(last, f) # NULL THEN ExplicitOf(last, f)
                                ELSE DerivedOf(last, f)
         /\ StoredOf(last, f) = NULL
              => (ExplicitOf(last, f) = NULL /\ DerivedOf(last, f) = NULL)

\* C4: for each of user_agent, ip_address and referrer independently, the
\* stored value is the explicit value when a non-empty one was supplied,
\* otherwise (explicit value absent or the empty string) the request-derived
\* value, which is null when the header or client is absent.
C4_NonEmptyExplicitWins ==
  (last.op = "click" /\ last.status = 201)
    => \A f \in MetaFields :
         StoredOf(last, f) = IF ExplicitOf(last, f) \notin {NULL, ""}
                               THEN ExplicitOf(last, f)
                               ELSE DerivedOf(last, f)

C4_Witness ==
  /\ last.op = "click"
  /\ last.status = 201
  /\ last.input[1].present
  /\ last.input[1].user_agent = "e-ua" /\ last.input[2].ua = "h-ua"
  /\ last.input[1].ip_address = "" /\ last.input[2].host = "h-ip"
  /\ last.input[1].referrer = NULL /\ last.input[2].referer = NULL
  /\ last.row[1] = ClickRow(last.id, "e-ua", "h-ip", NULL)

\* C5: a request makes the forwarding call exactly when it recorded a click
\* for a link whose posthog_enabled is true, and makes it after the click row
\* was committed; never before, never for a link with forwarding disabled.
C5_ForwardIffEnabledAfterCommit ==
  /\ Forwarded(last.effects)
       => /\ last.found /\ last.link.posthog_enabled
          /\ \A i \in 1..Len(last.effects) :
               last.effects[i] \in {"forward_ok", "forward_raise"}
                 => \E j \in 1..(i - 1) : last.effects[j] = "click"
  /\ (Recorded(last.effects) /\ last.link.posthog_enabled) => Forwarded(last.effects)
  /\ Recorded(last.effects) => Len(last.row) = 1 /\ clicks # <<>>

C5_Witness ==
  /\ last.op \in ResolveOps \cup {"click"}
  /\ last.link.posthog_enabled
  /\ last.effects = <<"click", "forward_ok">>

\* The target each redirect endpoint gives for a link.
TargetOf(op, l) ==
  IF op = "r" THEN RedirectUrlR(l)
  ELSE IF op = "go" THEN RedirectUrlGo(l)
  ELSE l.direct_url

\* C6: a forwarding call that raises leaves the response of /r, /track and
\* /go as it is when the call succeeds: 302 with the endpoint's target.
C6_ForwardFailureInvisible ==
  (last.op \in ResolveOps /\ Forwarded(last.effects))
    => (last.status = 302 /\ last.url = TargetOf(last.op, last.link))

C6_Witness ==
  /\ last.op \in ResolveOps
  /\ last.effects = <<"click", "forward_raise">>
  /\ last.status = 302
  /\ last.url = last.link.destination_url

\* C7: the stored tracking_url of every link is its stored destination URL
\* composed with its stored UTM attributes (source, medium, campaign, content,
\* term).
C7_TrackingUrlComposed ==
  \A i \in DOMAIN links :
    links[i].tracking_url =
      BuildTrackingUrl(links[i].destination_url, StoredParams(links[i]))

\* C8: a bulk-generate call that succeeds against N >= 1 active videos when no
\* link has its destination URL creates exactly N links, one per active video
\* and none for an inactive one, each reported "created" with utm_content equal
\* to its video id, with pairwise distinct tracking URLs.
C8_BulkCreatesOnePerActiveVideo ==
  [][(/\ last'.op = "bulk"
      /\ last'.status = 200
      /\ \A i \in DOMAIN links : links[i].destination_url # last'.key)
       => LET new == DOMAIN links' \ DOMAIN links
              g == last'.generated
          IN /\ Cardinality(active) >= 1
             /\ Cardinality(new) = Cardinality(active)
             /\ Len(g) = Cardinality(active)
             /\ \A v \in active :
                  Cardinality({i \in new : links'[i].video_id = v}) = 1
             /\ \A i \in new :
                  /\ links'[i].video_id \in active
                  /\ links'[i].destination_url = last'.key
                  /\ links'[i].utm_content = links'[i].video_id
             /\ \A k \in 1..Len(g) :
                  /\ g[k].status = "created"
                  /\ g[k].id \in new
                  /\ g[k].utm_content = g[k].video_id
                  /\ g[k].video_id = links'[g[k].id].video_id
                  /\ g[k].tracking_url = links'[g[k].id].tracking_url
             /\ \A i, j \in new :
                  i # j => links'[i].tracking_url # links'[j].tracking_url]_vars

C8_Witness ==
  /\ last.op = "bulk"
  /\ last.status = 200
  /\ Len(last.generated) = 2
  /\ \A k \in 1..2 : last.generated[k].status = "created"
  /\ last.generated[1].tracking_url # last.generated[2].tracking_url
  /\ last.generated[1].utm_content # last.generated[2].utm_content

\* C9: a bulk-generate call that fails while processing a video leaves the
\* link store exactly as it was before the call and reports the failure.
C9_BulkAllOrNothing ==
  [][(last'.op = "bulk" /\ last'.status >= 500) => links' = links]_vars

\* C10: DELETE of a link id that does not exist answers 404 and changes
\* nothing; DELETE of an existing link removes that link and no other; a
\* removed id stays removed, and every later analytics, resolve or delete
\* request for it answers 404.
C10_DeleteNotFound ==
  [][/\ (last'.op = "delete" /\ last'.id \notin DOMAIN links)
          => (last'.status = 404 /\ links' = links /\ clicks' = clicks)
     /\ (last'.op = "delete" /\ last'.id \in DOMAIN links)
          => /\ last'.status = 200
             /\ DOMAIN links' = DOMAIN links \ {last'.id}
             /\ \A j \in DOMAIN links' : links'[j] = links[j]
     /\ \A i \in 1..(nextId - 1) : i \notin DOMAIN links => i \notin DOMAIN links'
     /\ (last'.op \in {"analytics", "delete"} \cup ResolveOps
           /\ Referenced(links, last') = {})
          => last'.status = 404]_vars

C10_Witness ==
  /\ last.op \in ResolveOps \cup {"analytics"}
  /\ last.status = 404
  /\ last.id \in 1..(nextId - 1)
  /\ last.id \notin DOMAIN links

IdOps == {"analytics", "click", "delete", "ga4_enable", "ga4_disable"} \cup ResolveOps

\* C11: every request that names a link id (or slug) that does not exist --
\* analytics, record-click, delete, GA4 enable/disable, resolve -- is answered
\* 404, and a POST click on a missing id stores no click row.
C11_MissingLinkIs404 ==
  [][(last'.op \in IdOps /\ Referenced(links, last') = {})
       => (last'.status = 404 /\ clicks' = clicks)]_vars

\* An active link whose variant is server_redirect or an unrecognised value
\* was resolved.
PlainResolved ==
  /\ last.op \in ResolveOps
  /\ last.found
  /\ last.link.tracking_type \notin DirectTypes

\* C12 as stated: for an active link whose variant is server_redirect or
\* unrecognised, each of /r, /track and /go records the click and redirects
\* to destination_url.
C12_PlainRecordsEverywhere ==
  PlainResolved
    => (Recorded(last.effects) /\ last.status = 302
        /\ last.url = last.link.destination_url)

\* C12: for an active link whose variant is server_redirect or unrecognised,
\* /r and /go record the click and redirect to destination_url, while /track
\* records nothing and redirects to /api/v1/r/{id}; an unrecognised variant
\* gets the response server_redirect gets.
C12_PlainRecordsOnRAndGo ==
  PlainResolved
    => /\ last.status = 302
       /\ last.op \in {"r", "go"}
            => (Recorded(last.effects) /\ last.url = last.link.destination_url)
       /\ last.op = "track"
            => (~Recorded(last.effects) /\ last.url = TrackDelegateUrl(last.id))

C12_Witness ==
  /\ last.op = "go"
  /\ last.link.tracking_type = "custom"
  /\ last.link.tracking_url # last.link.destination_url
  /\ Recorded(last.effects)
  /\ last.status = 302
  /\ last.url = last.link.destination_url

\* C15: every 302 answer of /r, /track and /go names a redirect target: the
\* URL handed to the redirect is never null, for any active link that create
\* and bulk-generate can store.
C15_RedirectTargetDefined ==
  (last.op \in ResolveOps /\ last.status = 302) => last.url # NULL

HealthStatuses == {"healthy", "unhealthy", "not_configured", "error"}

\* C13: GET /health always answers (never raises) with a status out of
\* healthy, unhealthy, not_configured, error; and when the analytics
\* credentials are absent the status is not_configured and no analytics call
\* is made.
C13_HealthNotConfigured ==
  last.op = "health"
    => /\ last.status = 200
       /\ last.body.status \in HealthStatuses
       /\ ~Configured(service)
            => (last.body.status = "not_configured" /\ last.effects = <<>>)

\* C14: POST /sync answers 400 when the adapter is not configured, and when it
\* is configured and the sync returns, 200 with the synced and errors counts,
\* whatever the number of errors.
C14_SyncNotConfiguredIs400 ==
  [][last'.op = "sync"
       => /\ NoService(service) => last'.status = 400
          /\ (Configured(service) /\ Len(last'.input) = 2)
               => /\ last'.status = 200
                  /\ last'.body.synced = Get(last'.input[2], "synced")
                  /\ last'.body.errors = Get(last'.input[2], "errors")]_vars

\* C16: whatever the order and interleaving of bulk-generate calls for one
\* destination URL, the table never holds two links with the same video id
\* and destination URL.
C16_OneLinkPerVideoAndDestination ==
  \A i, j \in DOMAIN links :
    (links[i].video_id = links[j].video_id
       /\ links[i].destination_url = links[j].destination_url) => i = j
====
